---------------------------- MODULE Spec2Model ----------------------------
(***************************************************************************)
(* A model of linkbay_ai: the CostController (cost_controller.py) and the  *)
(* AIOrchestrator (core.py) with the providers it calls.                   *)
(*                                                                         *)
(* Time is counted in whole hours.  strftime("%Y-%m-%d-%H") yields a       *)
(* fixed-width, zero-padded string, so Python's string comparison of two   *)
(* keys is the lexicographic comparison of their (day, hour) fields; a key *)
(* is modelled as that pair and compared field by field.                   *)
(*                                                                         *)
(* Monetary amounts are counted in units of 10^-8 dollar, in which every   *)
(* price of the table is a whole number.  The code adds Python floats; on  *)
(* the amounts of this model the float sums and comparisons decide as the  *)
(* exact ones do (a sum either meets the ceiling in a float that equals    *)
(* the ceiling's, or stays a whole unit away from it).                     *)
(***************************************************************************)
EXTENDS Integers, Sequences, FiniteSets, TLC

VARIABLES
    now,              \* the wall clock, in hours (datetime.now())
    hourly_usage,     \* CostController.hourly_usage: hour key -> tokens
    daily_usage,      \* CostController.daily_usage: day key -> tokens
    hourly_cost,      \* CostController.hourly_cost: hour key -> cost
    last,             \* the last CostController call and what it returned
    recorded,         \* history: hour key -> the sum of the amounts recorded in that
                      \* hour since the windows were last reset
    recorded_cost,    \* history: hour key -> the sum of tokens x unit price over the
                      \* record_usage calls of that hour since the last reset
    n_records,        \* history: the number of record_usage calls made
    providers,        \* AIOrchestrator.providers: name -> provider, in insertion order
    request_history,  \* AIOrchestrator.request_history
    chat_last,        \* the last AIOrchestrator call and how it ended
    n_chats,          \* history: the number of chat calls made
    request_count,    \* BaseProvider.request_count, an attribute that may not exist
    error_count,      \* BaseProvider.error_count, an attribute that may not exist
    retry_last,       \* the last _execute_with_retry call and how it ended
    avail_last,       \* the last is_available call and how it ended
    req,              \* the requests in flight: where each stands in its
                      \* check_budget / record_usage pair, and its local variables
    tools,            \* ToolsManager.tools: name -> handler
    tool_definitions, \* ToolsManager.tool_definitions
    tool_last,        \* the last ToolsManager call and how it ended
    call              \* a chat call that runs in a thread of its own: the statement
                      \* it stands at, and its local variables

cost_vars == <<now, hourly_usage, daily_usage, hourly_cost, last, recorded, recorded_cost,
               n_records>>
orch_vars == <<providers, request_history, chat_last, n_chats>>
retry_vars == <<request_count, error_count, retry_last, avail_last>>
conc_vars == <<req>>
tools_vars == <<tools, tool_definitions, tool_last>>
thread_vars == <<call>>
vars == <<now, hourly_usage, daily_usage, hourly_cost, last, recorded, recorded_cost,
          n_records, providers, request_history, chat_last, n_chats,
          request_count, error_count, retry_last, avail_last, req, tools,
          tool_definitions, tool_last, call>>

---------------------------------------------------------------------------
(* Bounds of the model and the configuration it is checked with.           *)

\* BudgetConfig.max_tokens_per_hour
MaxTokensPerHour == 3
\* BudgetConfig.max_tokens_per_day
MaxTokensPerDay == 4
\* BudgetConfig.max_cost_per_hour, in units of 10^-8 dollar
MaxCostPerHour == 200000
\* BudgetConfig.alert_threshold, as the fraction AlertNum / AlertDen
AlertNum == 2
AlertDen == 3
\* the largest amount one record_usage call records
MaxRecordTokens == 2
\* the number of record_usage calls of one behaviour
MaxRecords == 2

HoursPerDay == 24
RetentionHours == 2
RetentionDays == 2

\* the hour at which the clock starts: 22:00 of the second day
StartHour == 2 * HoursPerDay - 2

\* the instants the clock visits, as offsets from StartHour: the next hour of
\* the same day, the first hour of the next day (where the first hour bucket
\* reaches the hourly retention), and the instant at which the first day
\* bucket reaches the daily retention
TickOffsets == {0, 1, RetentionHours, RetentionDays * HoursPerDay}
Times == {StartHour + d : d \in TickOffsets}

\* the models the calls name: one of the price table, one missing from it
Models == {"deepseek-chat", "other-model"}

\* the number of chat calls of one behaviour
MaxChats == 2

\* the estimates check_budget is called with
Estimates == -1 .. (MaxTokensPerHour + 1)
\* the amounts record_usage is called with
RecordTokens == -1 .. MaxRecordTokens

---------------------------------------------------------------------------
(* Dictionaries.                                                           *)

EmptyDict == << >>

\* dict.get(k, default)
Get(d, k, default) == IF k \in DOMAIN d THEN d[k] ELSE default

\* d[k] = v
Put(d, k, v) == [x \in (DOMAIN d) \cup {k} |-> IF x = k THEN v ELSE d[x]]

---------------------------------------------------------------------------
(* CostController                                                          *)

\* self.token_costs, per token, in units of 10^-8 dollar
token_costs == [m \in {"deepseek-chat", "deepseek-reasoner", "gpt-3.5-turbo", "gpt-4"} |->
                  CASE m = "deepseek-chat" -> 14
                    [] m = "deepseek-reasoner" -> 55
                    [] m = "gpt-3.5-turbo" -> 50
                    [] m = "gpt-4" -> 3000]

\* the price of a model missing from the table: 0.001
DefaultTokenCost == 100000

\* self.token_costs.get(model, 0.001)
UnitPrice(model) == Get(token_costs, model, DefaultTokenCost)

\* strftime("%Y-%m-%d-%H") of the instant t
HourKeyAt(t) == <<t \div HoursPerDay, t % HoursPerDay>>

\* strftime("%Y-%m-%d") of the instant t
DayKeyAt(t) == <<t \div HoursPerDay>>

\* k > threshold on two keys of the same format (string comparison)
KeyGT(k, threshold) ==
    \E i \in 1 .. Len(k) :
        /\ k[i] > threshold[i]
        /\ \A j \in 1 .. (i - 1) : k[j] = threshold[j]

get_hour_key == HourKeyAt(now)

get_day_key == DayKeyAt(now)

\* {k: v for k, v in d.items() if k > threshold}
KeepNewer(d, threshold) ==
    [k \in {x \in DOMAIN d : KeyGT(x, threshold)} |-> d[k]]

hour_threshold == HourKeyAt(now - RetentionHours)

day_threshold == DayKeyAt(now - RetentionDays * HoursPerDay)

\* the three windows after _cleanup_old_entries
CleanHourlyUsage == KeepNewer(hourly_usage, hour_threshold)
CleanHourlyCost == KeepNewer(hourly_cost, hour_threshold)
CleanDailyUsage == KeepNewer(daily_usage, day_threshold)

\* the cleanup leaving the daily window as it is
cleanup_keeps_daily ==
    /\ hourly_usage' = CleanHourlyUsage
    /\ hourly_cost' = CleanHourlyCost
    /\ daily_usage' = daily_usage

cleanup_old_entries ==
    /\ hourly_usage' = CleanHourlyUsage
    /\ hourly_cost' = CleanHourlyCost
    /\ daily_usage' = CleanDailyUsage

\* the price the price list sets for a model, for the history: the listed
\* price, and for a model missing from the list the default of 0.001
ListedPrice(model) ==
    IF model \in DOMAIN token_costs THEN token_costs[model] ELSE DefaultTokenCost

\* the hourly comparison with >= in place of >
HourlyExceededAtCeiling(current_hourly, estimated_tokens) ==
    current_hourly + estimated_tokens >= MaxTokensPerHour

\* current_hourly + estimated_tokens > max_tokens_per_hour
HourlyExceeded(current_hourly, estimated_tokens) ==
    current_hourly + estimated_tokens > MaxTokensPerHour

\* the daily comparison against the hourly ceiling
DailyExceededHourlyCeiling(current_daily, estimated_tokens) ==
    current_daily + estimated_tokens > MaxTokensPerHour

\* the daily comparison with >= in place of >
DailyExceededAtCeiling(current_daily, estimated_tokens) ==
    current_daily + estimated_tokens >= MaxTokensPerDay

\* current_daily + estimated_tokens > max_tokens_per_day
DailyExceeded(current_daily, estimated_tokens) ==
    current_daily + estimated_tokens > MaxTokensPerDay

\* the cost comparison with >= in place of >
CostExceededAtCeiling(current_cost, estimated_cost) ==
    current_cost + estimated_cost >= MaxCostPerHour

\* current_cost + estimated_cost > max_cost_per_hour
CostExceeded(current_cost, estimated_cost) ==
    current_cost + estimated_cost > MaxCostPerHour

\* the validation without its test for a negative estimate
InvalidEstimateNoSign(estimated_tokens) ==
    estimated_tokens > MaxTokensPerHour

\* the validation without its test against the hourly ceiling
InvalidEstimateNoCeiling(estimated_tokens) ==
    estimated_tokens < 0

\* estimated_tokens < 0, or estimated_tokens > max_tokens_per_hour
InvalidEstimate(estimated_tokens) ==
    \/ estimated_tokens < 0
    \/ estimated_tokens > MaxTokensPerHour

\* the alert comparison with >= in place of >
AlertRaisedAtThreshold(current_hourly, estimated_tokens) ==
    (current_hourly + estimated_tokens) * AlertDen >= AlertNum * MaxTokensPerHour

\* hourly_percent > alert_threshold
AlertRaised(current_hourly, estimated_tokens) ==
    (current_hourly + estimated_tokens) * AlertDen > AlertNum * MaxTokensPerHour

\* what check_budget(estimated_tokens, model) returns or raises, on the
\* windows hu, du, hc as they are after the cleanup: the kind of the outcome
\* (True, ValueError, BudgetExceededException) and the check that raised
CheckResult(estimated_tokens, model, hu, du, hc) ==
    IF InvalidEstimate(estimated_tokens)
    THEN [result |-> "invalid_input", by |-> "validation"]
    ELSE IF HourlyExceeded(Get(hu, get_hour_key, 0), estimated_tokens)
    THEN [result |-> "budget_exceeded", by |-> "hourly"]
    ELSE IF DailyExceeded(Get(du, get_day_key, 0), estimated_tokens)
    THEN [result |-> "budget_exceeded", by |-> "daily"]
    ELSE IF CostExceeded(Get(hc, get_hour_key, 0), estimated_tokens * UnitPrice(model))
    THEN [result |-> "budget_exceeded", by |-> "cost"]
    ELSE [result |-> "ok", by |-> "none"]

NoStats == [hourly_tokens |-> 0, daily_tokens |-> 0, hourly_cost |-> 0]

Call(op, tokens, model, result, by, alert, stats) ==
    [op |-> op, tokens |-> tokens, model |-> model, result |-> result,
     by |-> by, alert |-> alert, stats |-> stats]

\* check_budget with the cleanup moved in front of the validation
check_budget_cleanup_first(estimated_tokens, model) ==
    /\ cleanup_old_entries
    /\ LET r == CheckResult(estimated_tokens, model,
                            CleanHourlyUsage, CleanDailyUsage, CleanHourlyCost)
           alert == /\ r.result = "ok"
                    /\ AlertRaised(Get(CleanHourlyUsage, get_hour_key, 0), estimated_tokens)
       IN last' = Call("check_budget", estimated_tokens, model, r.result, r.by, alert, NoStats)
    /\ UNCHANGED <<now, recorded, recorded_cost, n_records>>

\* check_budget adding the estimate of an accepted call to the hourly window
check_budget_reserving(estimated_tokens, model) ==
    /\ LET r == CheckResult(estimated_tokens, model,
                            CleanHourlyUsage, CleanDailyUsage, CleanHourlyCost)
           alert == /\ r.result = "ok"
                    /\ AlertRaised(Get(CleanHourlyUsage, get_hour_key, 0), estimated_tokens)
       IN /\ last' = Call("check_budget", estimated_tokens, model, r.result, r.by, alert,
                          NoStats)
          /\ IF InvalidEstimate(estimated_tokens)
             THEN UNCHANGED <<hourly_usage, daily_usage, hourly_cost>>
             ELSE /\ hourly_usage' =
                         IF r.result = "ok"
                         THEN Put(CleanHourlyUsage, get_hour_key,
                                  Get(CleanHourlyUsage, get_hour_key, 0) + estimated_tokens)
                         ELSE CleanHourlyUsage
                  /\ daily_usage' = CleanDailyUsage
                  /\ hourly_cost' = CleanHourlyCost
    /\ UNCHANGED <<now, recorded, recorded_cost, n_records>>

\* check_budget(estimated_tokens, model): the two validations come before the
\* cleanup, so a call that fails them leaves the windows alone
check_budget(estimated_tokens, model) ==
    /\ IF InvalidEstimate(estimated_tokens)
       THEN UNCHANGED <<hourly_usage, daily_usage, hourly_cost>>
       ELSE cleanup_old_entries
    /\ LET r == CheckResult(estimated_tokens, model,
                            CleanHourlyUsage, CleanDailyUsage, CleanHourlyCost)
           alert == /\ r.result = "ok"
                    /\ AlertRaised(Get(CleanHourlyUsage, get_hour_key, 0), estimated_tokens)
       IN last' = Call("check_budget", estimated_tokens, model, r.result, r.by, alert, NoStats)
    /\ UNCHANGED <<now, recorded, recorded_cost, n_records>>

\* record_usage storing the amount in place of adding it
record_usage_overwrite(tokens_used, model) ==
    /\ n_records < MaxRecords
    /\ hourly_usage' = Put(hourly_usage, get_hour_key, tokens_used)
    /\ daily_usage' = Put(daily_usage, get_day_key, tokens_used)
    /\ hourly_cost' = Put(hourly_cost, get_hour_key, tokens_used * UnitPrice(model))
    /\ last' = Call("record_usage", tokens_used, model, "none", "none", FALSE, NoStats)
    /\ recorded' = Put(recorded, get_hour_key, Get(recorded, get_hour_key, 0) + tokens_used)
    /\ recorded_cost' = Put(recorded_cost, get_hour_key,
                            Get(recorded_cost, get_hour_key, 0)
                                + tokens_used * ListedPrice(model))
    /\ n_records' = n_records + 1
    /\ UNCHANGED now

\* record_usage(tokens_used, model)
record_usage(tokens_used, model) ==
    /\ n_records < MaxRecords
    /\ hourly_usage' = Put(hourly_usage, get_hour_key,
                           Get(hourly_usage, get_hour_key, 0) + tokens_used)
    /\ daily_usage' = Put(daily_usage, get_day_key,
                          Get(daily_usage, get_day_key, 0) + tokens_used)
    /\ hourly_cost' = Put(hourly_cost, get_hour_key,
                          Get(hourly_cost, get_hour_key, 0) + tokens_used * UnitPrice(model))
    /\ last' = Call("record_usage", tokens_used, model, "none", "none", FALSE, NoStats)
    /\ recorded' = Put(recorded, get_hour_key, Get(recorded, get_hour_key, 0) + tokens_used)
    /\ recorded_cost' = Put(recorded_cost, get_hour_key,
                            Get(recorded_cost, get_hour_key, 0)
                                + tokens_used * ListedPrice(model))
    /\ n_records' = n_records + 1
    /\ UNCHANGED now

\* get_current_usage(): the counts of the snapshot (the limits it repeats are
\* the configuration, the percentages are derived from the counts)
get_current_usage ==
    /\ last' = Call("get_current_usage", 0, "", "none", "none", FALSE,
                    [hourly_tokens |-> Get(hourly_usage, get_hour_key, 0),
                     daily_tokens |-> Get(daily_usage, get_day_key, 0),
                     hourly_cost |-> Get(hourly_cost, get_hour_key, 0)])
    /\ UNCHANGED <<now, hourly_usage, daily_usage, hourly_cost, recorded, recorded_cost,
                   n_records>>

\* reset_budgets leaving the daily window as it is
reset_budgets_keeps_daily ==
    /\ hourly_usage' = EmptyDict
    /\ hourly_cost' = EmptyDict
    /\ recorded' = EmptyDict
    /\ recorded_cost' = EmptyDict
    /\ last' = Call("reset_budgets", 0, "", "none", "none", FALSE, NoStats)
    /\ UNCHANGED <<now, daily_usage, n_records>>

\* reset_budgets()
reset_budgets ==
    /\ hourly_usage' = EmptyDict
    /\ daily_usage' = EmptyDict
    /\ hourly_cost' = EmptyDict
    /\ recorded' = EmptyDict
    /\ recorded_cost' = EmptyDict
    /\ last' = Call("reset_budgets", 0, "", "none", "none", FALSE, NoStats)
    /\ UNCHANGED <<now, n_records>>

\* the clock moves on to a later instant
Tick ==
    /\ \E t \in Times : t > now /\ now' = t
    /\ last' = Call("tick", 0, "", "none", "none", FALSE, NoStats)
    /\ UNCHANGED <<hourly_usage, daily_usage, hourly_cost, recorded, recorded_cost,
                   n_records>>

CostInit ==
    /\ now = StartHour
    /\ hourly_usage = EmptyDict
    /\ daily_usage = EmptyDict
    /\ hourly_cost = EmptyDict
    /\ last = Call("init", 0, "", "none", "none", FALSE, NoStats)
    /\ recorded = EmptyDict
    /\ recorded_cost = EmptyDict
    /\ n_records = 0

---------------------------------------------------------------------------
(* AIOrchestrator and the providers it calls.  The provider that core.py   *)
(* drives has a synchronous chat(prompt, params), which sends one request  *)
(* to its backend and raises when that request fails.                      *)

\* the provider objects and the names they are registered under
Provs == {"P1", "P2", "P3"}
Names == {"main", "backup"}

\* the priority each provider was configured with (ProviderConfig(priority=...))
Priority == [p \in Provs |-> IF p = "P1" THEN 1 ELSE 2]

\* how the backend of each provider answers during one chat call: with a
\* plain response, with a response that carries tool calls, or with a failure
Backends == [Provs -> {"ok", "tool_calls", "fail"}]

\* the position of name in the dictionary, 0 when it is not a key
IndexOf(d, name) ==
    IF \E i \in 1 .. Len(d) : d[i].name = name
    THEN CHOOSE i \in 1 .. Len(d) : d[i].name = name
    ELSE 0

\* self.providers[name] = provider: a new key goes to the end, an existing
\* key keeps its place
SetItem(d, name, provider) ==
    IF IndexOf(d, name) = 0
    THEN Append(d, [name |-> name, provider |-> provider])
    ELSE [d EXCEPT ![IndexOf(d, name)] = [name |-> name, provider |-> provider]]

\* list(self.providers.values())
Values(d) == [i \in 1 .. Len(d) |-> d[i].provider]

\* DeepSeekProvider.chat(prompt, params): one request to the backend, whose
\* failure is raised as an exception
ProviderChat(p, backend) ==
    IF backend[p] \in {"ok", "tool_calls"}
    THEN [outcome |-> "returned", error |-> "none", from |-> p,
          requests |-> [q \in Provs |-> IF q = p THEN 1 ELSE 0]]
    ELSE [outcome |-> "raised", error |-> "ProviderException", from |-> "none",
          requests |-> [q \in Provs |-> IF q = p THEN 1 ELSE 0]]

NoBackend == [p \in Provs |-> "ok"]

NoRequests == [p \in Provs |-> 0]

\* the record of an orchestrator call: requests counts the requests sent to
\* each provider's backend during the call
ChatCall(op, model, outcome, error, from, attempts, requests, backend) ==
    [op |-> op, model |-> model, outcome |-> outcome, error |-> error,
     from |-> from, attempts |-> attempts, requests |-> requests,
     backend |-> backend]

NoChat(op) == ChatCall(op, "", "none", "none", "none", << >>, NoRequests, NoBackend)

\* register_provider(name, provider)
register_provider(name, provider) ==
    /\ providers' = SetItem(providers, name, provider)
    /\ chat_last' = NoChat("register_provider")
    /\ UNCHANGED <<request_history, n_chats>>

\* chat appending to the history before it calls the provider
chat_append_first(model, backend) ==
    /\ n_chats < MaxChats
    /\ n_chats' = n_chats + 1
    /\ UNCHANGED providers
    /\ IF providers = << >>
       THEN /\ chat_last' = ChatCall("chat", model, "raised", "ValueError", "none",
                                     << >>, NoRequests, backend)
            /\ UNCHANGED request_history
       ELSE LET provider == Values(providers)[1]
                r == ProviderChat(provider, backend)
            IN /\ chat_last' = ChatCall("chat", model, r.outcome, r.error, r.from,
                                        <<provider>>, r.requests, backend)
               /\ request_history' =
                      Append(request_history, [model |-> model, response |-> r.from])

\* chat(prompt, model), the backends answering as in backend: attempts lists
\* the providers whose chat was called, in the order of the calls
chat(model, backend) ==
    /\ n_chats < MaxChats
    /\ n_chats' = n_chats + 1
    /\ UNCHANGED providers
    /\ IF providers = << >>
       THEN /\ chat_last' = ChatCall("chat", model, "raised", "ValueError", "none",
                                     << >>, NoRequests, backend)
            /\ UNCHANGED request_history
       ELSE LET provider == Values(providers)[1]
                r == ProviderChat(provider, backend)
            IN /\ chat_last' = ChatCall("chat", model, r.outcome, r.error, r.from,
                                        <<provider>>, r.requests, backend)
               /\ IF r.outcome = "returned"
                  THEN request_history' =
                           Append(request_history, [model |-> model, response |-> r.from])
                  ELSE UNCHANGED request_history

\* get_analytics()
get_analytics ==
    [total_requests |-> Len(request_history),
     models_used |->
         [m \in {"deepseek-chat", "deepseek-reasoning"} |->
             Cardinality({i \in 1 .. Len(request_history) : request_history[i].model = m})]]

OrchInit ==
    /\ providers = << >>
    /\ request_history = << >>
    /\ chat_last = NoChat("init")
    /\ n_chats = 0

---------------------------------------------------------------------------
(* A chat call that runs in one thread while register_provider is called   *)
(* from another.  chat holds no lock and reads self.providers twice, in    *)
(* the test of line 14 and in the selection of line 17; the other thread   *)
(* may run between any two statements of the call and while the call waits *)
(* for its provider.                                                       *)

\* no chat call is running
NoCall == [pc |-> "idle", model |-> "", started_with |-> << >>, provider |-> "none"]

\* chat(prompt, model) is entered and tests self.providers: an empty
\* dictionary raises ValueError; started_with keeps the dictionary as the
\* call found it
ChatTestProviders(model) ==
    /\ call.pc = "idle"
    /\ n_chats < MaxChats
    /\ UNCHANGED <<providers, request_history>>
    /\ IF providers = << >>
       THEN /\ chat_last' = ChatCall("chat", model, "raised", "ValueError", "none",
                                     << >>, NoRequests, NoBackend)
            /\ n_chats' = n_chats + 1
            /\ UNCHANGED call
       ELSE /\ call' = [pc |-> "tested", model |-> model, started_with |-> providers,
                        provider |-> "none"]
            /\ UNCHANGED <<chat_last, n_chats>>

\* provider = list(self.providers.values())[0]
ChatSelectProvider ==
    /\ call.pc = "tested"
    /\ call' = [call EXCEPT !.pc = "selected", !.provider = Values(providers)[1]]
    /\ UNCHANGED orch_vars

\* provider.chat(prompt, params) is called and waits for the backend
ChatCallProvider ==
    /\ call.pc = "selected"
    /\ call' = [call EXCEPT !.pc = "in_flight"]
    /\ UNCHANGED orch_vars

\* provider.chat ends, the backends having answered as in backend: a failure
\* leaves chat as an exception, a response is appended to the history and
\* returned
ChatProviderEnds(backend) ==
    /\ call.pc = "in_flight"
    /\ LET r == ProviderChat(call.provider, backend)
       IN /\ chat_last' = ChatCall("chat", call.model, r.outcome, r.error, r.from,
                                   <<call.provider>>, r.requests, backend)
          /\ IF r.outcome = "returned"
             THEN request_history' =
                      Append(request_history,
                             [model |-> call.model, response |-> r.from])
             ELSE UNCHANGED request_history
    /\ n_chats' = n_chats + 1
    /\ call' = NoCall
    /\ UNCHANGED providers

ThreadInit == call = NoCall

---------------------------------------------------------------------------
(* BaseProvider._execute_with_retry (providers.py).  The wrapped call func *)
(* is given by what it does at each of its invocations: it returns, or it  *)
(* raises one of the errors the wrapper tells apart.  Sleep durations are  *)
(* counted in units of 1 / BackoffDen second, in which backoff_factor =    *)
(* BackoffNum / BackoffDen = 1.5 is a whole number.                        *)

\* _execute_with_retry(func, max_retries = 3, backoff_factor = 1.5)
max_retries == 3
BackoffNum == 3
BackoffDen == 2

\* what one invocation of func does: APIError4xx is an APIError whose
\* status_code lies in 400 .. 499, APIError5xx any other APIError, Exception
\* an exception that is none of the openai errors
Raises == {"ok", "RateLimitError", "APITimeoutError", "APIConnectionError",
           "APIError5xx", "APIError4xx", "Exception"}

Funcs == [1 .. max_retries -> Raises]

\* an instance attribute: absent until an assignment creates it
Absent == [set |-> FALSE, value |-> 0]

\* how a call of the wrapper ends: calls counts the invocations of func,
\* sleeps lists the durations passed to asyncio.sleep, in order
RetryEnd(outcome, error, message, sleeps, calls, rc, ec) ==
    [outcome |-> outcome, error |-> error, message |-> message, sleeps |-> sleeps,
     calls |-> calls, request_count |-> rc, error_count |-> ec]

\* the statements after the loop: self.error_count += 1 raises AttributeError
\* when the attribute is absent; otherwise last_exception is raised, or the
\* "non disponibile" ProviderError when there is none
AfterLoop(last_exception, sleeps, calls, rc, ec) ==
    IF ~ec.set
    THEN RetryEnd("raised", "AttributeError", "error_count", sleeps, calls, rc, ec)
    ELSE LET ec1 == [ec EXCEPT !.value = @ + 1]
         IN IF last_exception.error = "none"
            THEN RetryEnd("raised", "ProviderError", "non disponibile", sleeps, calls,
                          rc, ec1)
            ELSE RetryEnd("raised", last_exception.error, last_exception.message,
                          sleeps, calls, rc, ec1)

\* the loop from index attempt on.  self.request_count += 1 stands inside the
\* try: on an absent attribute it raises AttributeError before func is
\* invoked, which the except Exception clause takes as an unexpected error.
RECURSIVE RetryLoop(_, _, _, _, _, _, _)
RetryLoop(attempt, func, last_exception, sleeps, calls, rc, ec) ==
    IF attempt >= max_retries
    THEN AfterLoop(last_exception, sleeps, calls, rc, ec)
    ELSE IF ~rc.set
    THEN AfterLoop([error |-> "ProviderError", message |-> "Unexpected error"],
                   sleeps, calls, rc, ec)
    ELSE LET rc1 == [rc EXCEPT !.value = @ + 1]
             raised == func[attempt + 1]
         IN CASE raised = "ok" ->
                     RetryEnd("returned", "none", "result", sleeps, calls + 1, rc1, ec)
              [] raised = "RateLimitError" ->
                     RetryLoop(attempt + 1, func,
                               [error |-> "ProviderRateLimitError",
                                message |-> "Rate limit error"],
                               Append(sleeps, (2 ^ attempt) * BackoffNum),
                               calls + 1, rc1, ec)
              [] raised = "APITimeoutError" ->
                     RetryLoop(attempt + 1, func,
                               [error |-> "ProviderTimeoutError", message |-> "Timeout"],
                               Append(sleeps, (2 ^ attempt) * BackoffDen),
                               calls + 1, rc1, ec)
              [] raised = "APIConnectionError" ->
                     RetryLoop(attempt + 1, func,
                               [error |-> "ProviderConnectionError",
                                message |-> "Connection error"],
                               Append(sleeps, (2 ^ attempt) * BackoffDen),
                               calls + 1, rc1, ec)
              [] raised = "APIError4xx" ->
                     RetryEnd("raised", "ProviderError", "Client error", sleeps,
                              calls + 1, rc1, ec)
              [] raised = "APIError5xx" ->
                     RetryLoop(attempt + 1, func,
                               [error |-> "ProviderError", message |-> "API error"],
                               Append(sleeps, (2 ^ attempt) * BackoffDen),
                               calls + 1, rc1, ec)
              [] OTHER ->
                     AfterLoop([error |-> "ProviderError", message |-> "Unexpected error"],
                               sleeps, calls + 1, rc1, ec)

NoException == [error |-> "none", message |-> "none"]

\* the record of a wrapper call
RetryCall(op, func, end, rc_before, ec_before) ==
    [op |-> op, func |-> func, end |-> end, request_count_before |-> rc_before,
     error_count_before |-> ec_before]

NoFunc == [i \in 1 .. max_retries |-> "ok"]

\* await self._execute_with_retry(func)
execute_with_retry(func) ==
    LET end == RetryLoop(0, func, NoException, << >>, 0, request_count, error_count)
    IN /\ request_count' = end.request_count
       /\ error_count' = end.error_count
       /\ retry_last' = RetryCall("execute_with_retry", func, end, request_count,
                                   error_count)
       /\ UNCHANGED avail_last

\* async for chunk in provider.stream(messages): the body iterates _call()
\* directly, which issues the streaming request and yields its chunks.  The
\* wrapper is not called: the backend is invoked once, the counters are not
\* touched, and an error of the backend is not a ProviderError, so the except
\* ProviderError clause lets it pass to the caller as it is.
stream(func) ==
    LET raised == func[1]
        end == IF raised = "ok"
               THEN RetryEnd("returned", "none", "chunks", << >>, 1, request_count,
                             error_count)
               ELSE RetryEnd("raised", raised, "backend", << >>, 1, request_count,
                             error_count)
    IN /\ retry_last' = RetryCall("stream", func, end, request_count, error_count)
       /\ UNCHANGED <<request_count, error_count, avail_last>>

\* BaseProvider.__init__ sets config and name, and neither counter
RetryInit ==
    /\ request_count = Absent
    /\ error_count = Absent
    /\ retry_last = RetryCall("init", NoFunc,
                              RetryEnd("none", "none", "none", << >>, 0, Absent, Absent),
                              Absent, Absent)
    /\ avail_last = [op |-> "init", health |-> "True", outcome |-> "none",
                     value |-> "none", error |-> "none"]

---------------------------------------------------------------------------
(* Requests served at once by threads that share one CostController.  Each *)
(* request runs check_budget(e, model), sends its provider call, and then  *)
(* calls record_usage(e, model).  The controller holds no lock, and a      *)
(* thread may be suspended between any two operations on the windows:      *)
(*   - _cleanup_old_entries evaluates, for each window in turn, a          *)
(*     comprehension over the items of the dictionary and then rebinds the *)
(*     attribute to the dictionary it has built.  A key inserted into the  *)
(*     dictionary while it is iterated makes the iterator raise            *)
(*     RuntimeError (dictionary changed size during iteration), which      *)
(*     leaves check_budget; a store into the dictionary after the          *)
(*     iteration and before the rebinding is dropped with the old          *)
(*     dictionary.                                                         *)
(*   - the three checks read their windows one after the other.            *)
(*   - record_usage is three read-add-write statements, each storing into  *)
(*     the dictionary the attribute is bound to at the time of the store.  *)

Requests == {"r1", "r2"}

\* the windows, in the order in which _cleanup_old_entries rebuilds them
Window(w) ==
    CASE w = "hourly_usage" -> hourly_usage
      [] w = "hourly_cost" -> hourly_cost
      [] w = "daily_usage" -> daily_usage

Threshold(w) == IF w = "daily_usage" THEN day_threshold ELSE hour_threshold

\* a thread before its check_budget call.  window is the window the cleanup
\* works on; keys are the keys of the dictionary when its iterator was
\* created; live tells whether the iterated dictionary is still the one the
\* attribute is bound to, and obj holds it once it is not; built is the
\* dictionary the comprehension has built; current_hourly is the local
\* variable of check_budget; result, by and alert tell how the check_budget
\* call of the thread ended (the calls of the threads overlap, so each
\* thread keeps the outcome of its own call)
Idle == [pc |-> "idle", tokens |-> 0, model |-> "", read |-> 0, window |-> "none",
         keys |-> {}, live |-> FALSE, obj |-> EmptyDict, built |-> EmptyDict,
         current_hourly |-> 0, result |-> "none", by |-> "none", alert |-> FALSE]

\* check_budget raises: the request ends with the exception
ReqRaise(r, e, model, result, by) ==
    req' = [req EXCEPT ![r] = [Idle EXCEPT !.pc = "rejected", !.tokens = e,
                                            !.model = model, !.result = result,
                                            !.by = by]]

\* a thread takes a request and enters check_budget(e, model): the two
\* validations, which read no window
ReqValidate(r, e, model) ==
    /\ req[r].pc \in {"idle", "done", "rejected"}
    /\ n_records < MaxRecords
    /\ IF InvalidEstimate(e)
       THEN ReqRaise(r, e, model, "invalid_input", "validation")
       ELSE req' = [req EXCEPT ![r] = [Idle EXCEPT !.pc = "cleanup", !.tokens = e,
                                                   !.model = model,
                                                   !.window = "hourly_usage"]]
    /\ UNCHANGED cost_vars

\* self.<window>.items() is evaluated and the comprehension creates its
\* iterator, which remembers the size of the dictionary
ReqIterate(r) ==
    /\ req[r].pc = "cleanup"
    /\ req' = [req EXCEPT ![r].pc = "iterating",
                          ![r].keys = DOMAIN Window(req[r].window),
                          ![r].live = TRUE]
    /\ UNCHANGED cost_vars

\* the comprehension runs to its end: the iterator raises RuntimeError when
\* the dictionary has received a key since the iterator was created
ReqBuild(r) ==
    /\ req[r].pc = "iterating"
    /\ LET d == IF req[r].live THEN Window(req[r].window) ELSE req[r].obj
       IN IF DOMAIN d # req[r].keys
          THEN ReqRaise(r, req[r].tokens, req[r].model, "runtime_error", "cleanup")
          ELSE req' = [req EXCEPT ![r].pc = "built",
                                 ![r].keys = {},
                                 ![r].live = FALSE,
                                 ![r].obj = EmptyDict,
                                 ![r].built = KeepNewer(d, Threshold(req[r].window))]
    /\ UNCHANGED cost_vars

\* self.<window> = the dictionary built: a thread that iterates the
\* dictionary bound until now keeps iterating that one
ReqRebind(r) ==
    /\ req[r].pc = "built"
    /\ LET w == req[r].window
       IN /\ hourly_usage' = IF w = "hourly_usage" THEN req[r].built ELSE hourly_usage
          /\ hourly_cost' = IF w = "hourly_cost" THEN req[r].built ELSE hourly_cost
          /\ daily_usage' = IF w = "daily_usage" THEN req[r].built ELSE daily_usage
          /\ req' = [q \in Requests |->
                        IF q = r
                        THEN [req[r] EXCEPT
                                 !.built = EmptyDict,
                                 !.pc = IF w = "daily_usage" THEN "check_hourly"
                                        ELSE "cleanup",
                                 !.window = CASE w = "hourly_usage" -> "hourly_cost"
                                              [] w = "hourly_cost" -> "daily_usage"
                                              [] OTHER -> "none"]
                        ELSE IF req[q].pc = "iterating" /\ req[q].window = w
                                /\ req[q].live
                        THEN [req[q] EXCEPT !.live = FALSE, !.obj = Window(w)]
                        ELSE req[q]]
    /\ UNCHANGED <<now, last, recorded, recorded_cost, n_records>>

\* current_hourly = self.hourly_usage.get(hour_key, 0), and the hourly check
ReqCheckHourly(r) ==
    /\ req[r].pc = "check_hourly"
    /\ LET current_hourly == Get(hourly_usage, get_hour_key, 0)
       IN IF HourlyExceeded(current_hourly, req[r].tokens)
          THEN ReqRaise(r, req[r].tokens, req[r].model, "budget_exceeded", "hourly")
          ELSE req' = [req EXCEPT ![r].pc = "check_daily",
                                 ![r].current_hourly = current_hourly]
    /\ UNCHANGED cost_vars

\* current_daily = self.daily_usage.get(day_key, 0), and the daily check
ReqCheckDaily(r) ==
    /\ req[r].pc = "check_daily"
    /\ IF DailyExceeded(Get(daily_usage, get_day_key, 0), req[r].tokens)
       THEN ReqRaise(r, req[r].tokens, req[r].model, "budget_exceeded", "daily")
       ELSE req' = [req EXCEPT ![r].pc = "check_cost"]
    /\ UNCHANGED cost_vars

\* current_cost = self.hourly_cost.get(hour_key, 0.0), the cost check and the
\* alert: an accepted request goes on to its provider call
ReqCheckCost(r) ==
    /\ req[r].pc = "check_cost"
    /\ IF CostExceeded(Get(hourly_cost, get_hour_key, 0),
                       req[r].tokens * UnitPrice(req[r].model))
       THEN ReqRaise(r, req[r].tokens, req[r].model, "budget_exceeded", "cost")
       ELSE req' = [req EXCEPT ![r].pc = "in_flight",
                              ![r].current_hourly = 0,
                              ![r].result = "ok",
                              ![r].alert = AlertRaised(req[r].current_hourly,
                                                       req[r].tokens)]
    /\ UNCHANGED cost_vars

\* the provider call has returned and record_usage(e, model) begins:
\* self.hourly_usage.get(hour_key, 0)
ReqReadHourly(r) ==
    /\ req[r].pc = "in_flight"
    /\ req' = [req EXCEPT ![r].pc = "hourly_read",
                          ![r].read = Get(hourly_usage, get_hour_key, 0)]
    /\ UNCHANGED cost_vars

\* self.hourly_usage[hour_key] = ... + tokens_used
ReqWriteHourly(r) ==
    /\ req[r].pc = "hourly_read"
    /\ hourly_usage' = Put(hourly_usage, get_hour_key, req[r].read + req[r].tokens)
    /\ req' = [req EXCEPT ![r].pc = "hourly_written"]
    /\ UNCHANGED <<now, daily_usage, hourly_cost, last, recorded, recorded_cost,
                   n_records>>

\* self.daily_usage.get(day_key, 0)
ReqReadDaily(r) ==
    /\ req[r].pc = "hourly_written"
    /\ req' = [req EXCEPT ![r].pc = "daily_read",
                          ![r].read = Get(daily_usage, get_day_key, 0)]
    /\ UNCHANGED cost_vars

\* self.daily_usage[day_key] = ... + tokens_used
ReqWriteDaily(r) ==
    /\ req[r].pc = "daily_read"
    /\ daily_usage' = Put(daily_usage, get_day_key, req[r].read + req[r].tokens)
    /\ req' = [req EXCEPT ![r].pc = "daily_written"]
    /\ UNCHANGED <<now, hourly_usage, hourly_cost, last, recorded, recorded_cost,
                   n_records>>

\* self.hourly_cost.get(hour_key, 0.0)
ReqReadCost(r) ==
    /\ req[r].pc = "daily_written"
    /\ req' = [req EXCEPT ![r].pc = "cost_read",
                          ![r].read = Get(hourly_cost, get_hour_key, 0)]
    /\ UNCHANGED cost_vars

\* self.hourly_cost[hour_key] = ... + cost, and record_usage returns
ReqWriteCost(r) ==
    /\ req[r].pc = "cost_read"
    /\ hourly_cost' = Put(hourly_cost, get_hour_key,
                          req[r].read + req[r].tokens * UnitPrice(req[r].model))
    /\ req' = [req EXCEPT ![r].pc = "done"]
    /\ recorded' = Put(recorded, get_hour_key,
                       Get(recorded, get_hour_key, 0) + req[r].tokens)
    /\ recorded_cost' = Put(recorded_cost, get_hour_key,
                            Get(recorded_cost, get_hour_key, 0)
                                + req[r].tokens * ListedPrice(req[r].model))
    /\ n_records' = n_records + 1
    /\ UNCHANGED <<now, last, hourly_usage, daily_usage>>

ConcInit == req = [r \in Requests |-> Idle]

---------------------------------------------------------------------------
(* ToolsManager (tools.py).  A handler is a coroutine function, given by   *)
(* what a call of it does on the arguments of the tool call.               *)

\* the registrations a ToolsManager receives at most
MaxToolDefinitions == 3

ToolNames == {"search_products", "get_weather"}

\* search_products raises ValueError on an empty query, get_weather always
\* returns, validating raises ToolValidationError on arguments it rejects,
\* and cancelled is a handler whose await is cancelled
Handlers == {"search_products", "get_weather", "validating", "cancelled"}

\* tool_call.arguments: accepted by the handler, rejected by the handler's own
\* checks, or not matching the handler's parameters
Arguments == {"valid", "invalid", "mismatch"}

\* the direct base class of each exception class
BaseOf ==
    [c \in {"ToolNotFoundError", "ToolValidationError", "ToolExecutionError",
            "ValueError", "TypeError", "RuntimeError", "Exception", "CancelledError",
            "KeyboardInterrupt"} |->
        CASE c \in {"ToolNotFoundError", "ToolValidationError"} -> "ToolExecutionError"
          [] c \in {"ToolExecutionError", "ValueError", "TypeError", "RuntimeError"} ->
                 "Exception"
          [] OTHER -> "BaseException"]

\* issubclass(c, d)
RECURSIVE IsSubclass(_, _)
IsSubclass(c, d) ==
    \/ c = d
    \/ c \in DOMAIN BaseOf /\ IsSubclass(BaseOf[c], d)

Returns(result) == [raises |-> "none", text |-> "none", result |-> result, entered |-> TRUE]

Throws(class, text, entered) ==
    [raises |-> class, text |-> text, result |-> "none", entered |-> entered]

\* await function(**arguments): arguments that do not match the parameters
\* raise TypeError at the call, before the body of the handler is entered
Run(function, arguments) ==
    IF arguments = "mismatch"
    THEN Throws("TypeError", "unexpected keyword argument", FALSE)
    ELSE CASE function = "search_products" ->
                  IF arguments = "invalid"
                  THEN Throws("ValueError", "Query di ricerca obbligatoria", TRUE)
                  ELSE Returns("products")
           [] function = "validating" ->
                  IF arguments = "invalid"
                  THEN Throws("ToolValidationError", "invalid arguments", TRUE)
                  ELSE Returns("validated")
           [] function = "cancelled" -> Throws("CancelledError", "", TRUE)
           [] OTHER -> Returns("weather")

NoRun == [raises |-> "none", text |-> "none", result |-> "none", entered |-> FALSE]

\* the record of a ToolsManager call: did is what the handler did when it was
\* called (NoRun when no handler was called), called lists the handlers called,
\* tool and cause are the tool name and the text the raised error carries
ToolCallRecord(op, name, arguments, outcome, error, tool, cause, result, called, did) ==
    [op |-> op, name |-> name, arguments |-> arguments, outcome |-> outcome,
     error |-> error, tool |-> tool, cause |-> cause, result |-> result,
     called |-> called, did |-> did]

NoToolCall(op, name) ==
    ToolCallRecord(op, name, "valid", "none", "none", "none", "none", "none", << >>, NoRun)

\* register_tool(name, function, description, parameters)
register_tool(name, function) ==
    /\ Len(tool_definitions) < MaxToolDefinitions
    /\ tools' = Put(tools, name, function)
    /\ tool_definitions' = Append(tool_definitions, [type |-> "function", name |-> name])
    /\ tool_last' = NoToolCall("register_tool", name)

\* execute_tool with the except clause left out: what the handler raises
\* reaches the caller as it is
execute_tool_unwrapped(name, arguments) ==
    /\ UNCHANGED <<tools, tool_definitions>>
    /\ IF name \notin DOMAIN tools
       THEN tool_last' = ToolCallRecord("execute_tool", name, arguments, "raised",
                                        "ToolExecutionError", name, "Tool non trovato",
                                        "none", << >>, NoRun)
       ELSE LET function == tools[name]
                did == Run(function, arguments)
            IN IF did.raises = "none"
               THEN tool_last' = ToolCallRecord("execute_tool", name, arguments,
                                                "returned", "none", "none", "none",
                                                did.result, <<function>>, did)
               ELSE tool_last' = ToolCallRecord("execute_tool", name, arguments,
                                                "raised", did.raises, "none", did.text,
                                                "none", <<function>>, did)

\* await execute_tool(tool_call), tool_call = ToolCall(name, arguments)
execute_tool(name, arguments) ==
    /\ UNCHANGED <<tools, tool_definitions>>
    /\ IF name \notin DOMAIN tools
       THEN tool_last' = ToolCallRecord("execute_tool", name, arguments, "raised",
                                        "ToolExecutionError", name, "Tool non trovato",
                                        "none", << >>, NoRun)
       ELSE LET function == tools[name]
                did == Run(function, arguments)
            IN IF did.raises = "none"
               THEN tool_last' = ToolCallRecord("execute_tool", name, arguments,
                                                "returned", "none", "none", "none",
                                                did.result, <<function>>, did)
               ELSE IF IsSubclass(did.raises, "Exception")
               THEN tool_last' = ToolCallRecord("execute_tool", name, arguments,
                                                "raised", "ToolExecutionError", name,
                                                did.text, "none", <<function>>, did)
               ELSE tool_last' = ToolCallRecord("execute_tool", name, arguments,
                                                "raised", did.raises, "none", did.text,
                                                "none", <<function>>, did)

\* the names of the definitions in seq, each once, in the order of its first
\* definition: a dict keeps its keys in the order of their first insertion,
\* and register_tool inserts the key and appends the definition together
RECURSIVE Keys(_)
Keys(seq) ==
    IF seq = << >>
    THEN << >>
    ELSE LET front == Keys(SubSeq(seq, 1, Len(seq) - 1))
             name == seq[Len(seq)].name
         IN IF \E i \in 1 .. Len(front) : front[i] = name
            THEN front
            ELSE Append(front, name)

\* list_tools(): list(self.tools.keys())
list_tools ==
    /\ tool_last' = ToolCallRecord("list_tools", "", "valid", "returned", "none", "none",
                                   "none", Keys(tool_definitions), << >>, NoRun)
    /\ UNCHANGED <<tools, tool_definitions>>

\* get_tool_definitions(): the list itself
get_tool_definitions ==
    /\ tool_last' = ToolCallRecord("get_tool_definitions", "", "valid", "returned", "none",
                                   "none", "none", tool_definitions, << >>, NoRun)
    /\ UNCHANGED <<tools, tool_definitions>>

\* ToolsManager.__init__
ToolsInit ==
    /\ tools = EmptyDict
    /\ tool_definitions = << >>
    /\ tool_last = NoToolCall("init", "")

---------------------------------------------------------------------------
(* BaseProvider.is_available (providers.py).  _health_check is the hook a  *)
(* provider overrides; it is given by what a call of it does.              *)

\* _health_check(): it returns True (the base class) or False, or it raises:
\* RuntimeError derives from Exception, KeyboardInterrupt from BaseException
HealthChecks == {"True", "False", "RuntimeError", "KeyboardInterrupt"}

AvailCall(health, outcome, value, error) ==
    [op |-> "is_available", health |-> health, outcome |-> outcome, value |-> value,
     error |-> error]

\* is_available without the try: what the health check raises leaves the call
is_available_unguarded(health) ==
    /\ avail_last' = IF health \in {"True", "False"}
                     THEN AvailCall(health, "returned", health, "none")
                     ELSE AvailCall(health, "raised", "none", health)
    /\ UNCHANGED <<request_count, error_count, retry_last>>

\* is_available(), the health check of the provider doing health
is_available(health) ==
    /\ avail_last' = IF health \in {"True", "False"}
                     THEN AvailCall(health, "returned", health, "none")
                     ELSE IF IsSubclass(health, "Exception")
                     THEN AvailCall(health, "returned", "False", "none")
                     ELSE AvailCall(health, "raised", "none", health)
    /\ UNCHANGED <<request_count, error_count, retry_last>>

Init == CostInit /\ OrchInit /\ RetryInit /\ ConcInit /\ ToolsInit /\ ThreadInit

CheckBudgetStep ==
    /\ \E e \in Estimates, m \in Models : check_budget(e, m)
    /\ UNCHANGED <<orch_vars, retry_vars, conc_vars, tools_vars, thread_vars>>

RecordUsageStep ==
    /\ \E t \in RecordTokens, m \in Models : record_usage(t, m)
    /\ UNCHANGED <<orch_vars, retry_vars, conc_vars, tools_vars, thread_vars>>

GetCurrentUsageStep == get_current_usage /\ UNCHANGED <<orch_vars, retry_vars, conc_vars, tools_vars, thread_vars>>

ResetBudgetsStep == reset_budgets /\ UNCHANGED <<orch_vars, retry_vars, conc_vars, tools_vars, thread_vars>>

TickStep == Tick /\ UNCHANGED <<orch_vars, retry_vars, conc_vars, tools_vars, thread_vars>>

CostNext ==
    \/ CheckBudgetStep
    \/ RecordUsageStep
    \/ GetCurrentUsageStep
    \/ ResetBudgetsStep
    \/ TickStep

SpecCost == Init /\ [][CostNext]_vars

RegisterProviderStep ==
    /\ \E name \in Names, p \in Provs : register_provider(name, p)
    /\ UNCHANGED <<cost_vars, retry_vars, conc_vars, tools_vars, thread_vars>>

ChatStep ==
    /\ \E m \in Models, b \in Backends : chat(m, b)
    /\ UNCHANGED <<cost_vars, retry_vars, conc_vars, tools_vars, thread_vars>>

\* the application records the usage of a response with the controller
AppRecordUsageStep ==
    /\ record_usage(MaxRecordTokens, "deepseek-chat")
    /\ UNCHANGED <<orch_vars, retry_vars, conc_vars, tools_vars, thread_vars>>

OrchNext ==
    \/ RegisterProviderStep
    \/ ChatStep
    \/ AppRecordUsageStep

SpecOrch == Init /\ [][OrchNext]_vars

ChatTestProvidersStep ==
    /\ \E m \in Models : ChatTestProviders(m)
    /\ UNCHANGED <<cost_vars, retry_vars, conc_vars, tools_vars>>

ChatSelectProviderStep ==
    /\ ChatSelectProvider
    /\ UNCHANGED <<cost_vars, retry_vars, conc_vars, tools_vars>>

ChatCallProviderStep ==
    /\ ChatCallProvider
    /\ UNCHANGED <<cost_vars, retry_vars, conc_vars, tools_vars>>

ChatProviderEndsStep ==
    /\ \E b \in Backends : ChatProviderEnds(b)
    /\ UNCHANGED <<cost_vars, retry_vars, conc_vars, tools_vars>>

\* register_provider called from another thread
ThreadNext ==
    \/ RegisterProviderStep
    \/ ChatTestProvidersStep
    \/ ChatSelectProviderStep
    \/ ChatCallProviderStep
    \/ ChatProviderEndsStep

SpecThreads == Init /\ [][ThreadNext]_vars

ExecuteWithRetryStep ==
    /\ \E func \in Funcs : execute_with_retry(func)
    /\ UNCHANGED <<cost_vars, orch_vars, conc_vars, tools_vars, thread_vars>>

IsAvailableStep ==
    /\ \E health \in HealthChecks : is_available(health)
    /\ UNCHANGED <<cost_vars, orch_vars, conc_vars, tools_vars, thread_vars>>

StreamStep ==
    /\ \E func \in Funcs : stream(func)
    /\ UNCHANGED <<cost_vars, orch_vars, conc_vars, tools_vars, thread_vars>>

RetryNext ==
    \/ ExecuteWithRetryStep
    \/ IsAvailableStep
    \/ StreamStep

SpecRetry == Init /\ [][RetryNext]_vars

ReqValidateStep ==
    /\ \E r \in Requests, e \in Estimates, m \in Models : ReqValidate(r, e, m)
    /\ UNCHANGED <<orch_vars, retry_vars, tools_vars, thread_vars>>

ReqIterateStep ==
    /\ \E r \in Requests : ReqIterate(r)
    /\ UNCHANGED <<orch_vars, retry_vars, tools_vars, thread_vars>>

ReqBuildStep ==
    /\ \E r \in Requests : ReqBuild(r)
    /\ UNCHANGED <<orch_vars, retry_vars, tools_vars, thread_vars>>

ReqRebindStep ==
    /\ \E r \in Requests : ReqRebind(r)
    /\ UNCHANGED <<orch_vars, retry_vars, tools_vars, thread_vars>>

ReqCheckHourlyStep ==
    /\ \E r \in Requests : ReqCheckHourly(r)
    /\ UNCHANGED <<orch_vars, retry_vars, tools_vars, thread_vars>>

ReqCheckDailyStep ==
    /\ \E r \in Requests : ReqCheckDaily(r)
    /\ UNCHANGED <<orch_vars, retry_vars, tools_vars, thread_vars>>

ReqCheckCostStep ==
    /\ \E r \in Requests : ReqCheckCost(r)
    /\ UNCHANGED <<orch_vars, retry_vars, tools_vars, thread_vars>>

ReqReadHourlyStep ==
    /\ \E r \in Requests : ReqReadHourly(r)
    /\ UNCHANGED <<orch_vars, retry_vars, tools_vars, thread_vars>>

ReqWriteHourlyStep ==
    /\ \E r \in Requests : ReqWriteHourly(r)
    /\ UNCHANGED <<orch_vars, retry_vars, tools_vars, thread_vars>>

ReqReadDailyStep ==
    /\ \E r \in Requests : ReqReadDaily(r)
    /\ UNCHANGED <<orch_vars, retry_vars, tools_vars, thread_vars>>

ReqWriteDailyStep ==
    /\ \E r \in Requests : ReqWriteDaily(r)
    /\ UNCHANGED <<orch_vars, retry_vars, tools_vars, thread_vars>>

ReqReadCostStep ==
    /\ \E r \in Requests : ReqReadCost(r)
    /\ UNCHANGED <<orch_vars, retry_vars, tools_vars, thread_vars>>

ReqWriteCostStep ==
    /\ \E r \in Requests : ReqWriteCost(r)
    /\ UNCHANGED <<orch_vars, retry_vars, tools_vars, thread_vars>>

ConcNext ==
    \/ ReqValidateStep
    \/ ReqIterateStep
    \/ ReqBuildStep
    \/ ReqRebindStep
    \/ ReqCheckHourlyStep
    \/ ReqCheckDailyStep
    \/ ReqCheckCostStep
    \/ ReqReadHourlyStep
    \/ ReqWriteHourlyStep
    \/ ReqReadDailyStep
    \/ ReqWriteDailyStep
    \/ ReqReadCostStep
    \/ ReqWriteCostStep

SpecConc == Init /\ [][ConcNext]_vars

RegisterToolStep ==
    /\ \E name \in ToolNames, function \in Handlers : register_tool(name, function)
    /\ UNCHANGED <<cost_vars, orch_vars, retry_vars, conc_vars, thread_vars>>

ExecuteToolStep ==
    /\ \E name \in ToolNames, arguments \in Arguments : execute_tool(name, arguments)
    /\ UNCHANGED <<cost_vars, orch_vars, retry_vars, conc_vars, thread_vars>>

ListToolsStep ==
    /\ list_tools
    /\ UNCHANGED <<cost_vars, orch_vars, retry_vars, conc_vars, thread_vars>>

GetToolDefinitionsStep ==
    /\ get_tool_definitions
    /\ UNCHANGED <<cost_vars, orch_vars, retry_vars, conc_vars, thread_vars>>

ToolsNext ==
    \/ RegisterToolStep
    \/ ExecuteToolStep
    \/ ListToolsStep
    \/ GetToolDefinitionsStep

SpecTools == Init /\ [][ToolsNext]_vars

---------------------------------------------------------------------------
(* Properties of the CostController, checked under SpecCost.               *)

\* the counts of the current buckets
CurrentHourly == Get(hourly_usage, get_hour_key, 0)
CurrentDaily == Get(daily_usage, get_day_key, 0)
CurrentCost == Get(hourly_cost, get_hour_key, 0)

\* the step is a check_budget call (every other call leaves another op in last)
IsCheckBudget == last'.op = "check_budget"

\* C1: with an estimate e in 0 .. max_tokens_per_hour and the daily and cost
\* ceilings not binding, check_budget(e) fails with budget-exceeded if and only
\* if the tokens recorded in the current hour plus e exceed max_tokens_per_hour:
\* it accepts at the ceiling and rejects one above it.
C1_HourlyCeiling ==
    [][(/\ IsCheckBudget
        /\ last'.tokens \in 0 .. MaxTokensPerHour
        /\ CurrentDaily + last'.tokens <= MaxTokensPerDay
        /\ CurrentCost + last'.tokens * UnitPrice(last'.model) <= MaxCostPerHour)
       => (last'.result = "budget_exceeded"
             <=> CurrentHourly + last'.tokens > MaxTokensPerHour)]_vars

\* C1 witness: after two record_usage calls in the current hour, a check whose
\* estimate reaches the ceiling exactly has been accepted.
C1_Witness ==
    /\ last.op = "check_budget"
    /\ last.result = "ok"
    /\ last.tokens > 0
    /\ n_records = 2
    /\ CurrentHourly = Get(recorded, get_hour_key, 0)
    /\ CurrentHourly + last.tokens = MaxTokensPerHour

\* C2: get_current_usage().hourly.tokens is the exact sum of the amounts
\* recorded in the current hour bucket, whatever check_budget and
\* get_current_usage calls came in between (counting from the last
\* reset_budgets, if there was one).
C2_HourlyTokensAreTheSum ==
    last.op = "get_current_usage"
        => last.stats.hourly_tokens = Get(recorded, get_hour_key, 0)

\* C2 witness: a snapshot taken after two record_usage calls in one hour.
C2_Witness ==
    /\ last.op = "get_current_usage"
    /\ n_records = 2
    /\ DOMAIN recorded = {get_hour_key}
    /\ last.stats.hourly_tokens = MaxTokensPerHour

\* C7: check_budget with a negative estimate fails with invalid-input in
\* every state, also when a budget is used up.
C7_NegativeIsInvalid ==
    (last.op = "check_budget" /\ last.tokens < 0) => last.result = "invalid_input"

\* C7 witness: a negative estimate was refused as invalid while the hourly
\* budget was exhausted.
C7_Witness ==
    /\ last.op = "check_budget"
    /\ last.tokens < 0
    /\ last.result = "invalid_input"
    /\ CurrentHourly >= MaxTokensPerHour

\* C8: a check_budget call that fails validation leaves the three windows
\* as they were: no count changes, no bucket is created, none is evicted.
C8_InvalidTouchesNothing ==
    [][(IsCheckBudget /\ last'.result = "invalid_input")
       => UNCHANGED <<hourly_usage, daily_usage, hourly_cost>>]_vars

\* a bucket the cleanup would evict is still in the windows
StaleBucket ==
    \/ \E k \in DOMAIN hourly_usage : ~KeyGT(k, hour_threshold)
    \/ \E k \in DOMAIN daily_usage : ~KeyGT(k, day_threshold)

\* C8 witness: a call failed validation while a bucket past its retention
\* was in the windows, and the bucket is still there.
C8_Witness ==
    /\ last.op = "check_budget"
    /\ last.result = "invalid_input"
    /\ StaleBucket

\* C9: check_budget(e) with e above max_tokens_per_hour fails with
\* invalid-input, not with budget-exceeded, whatever the usage is.
C9_OverCeilingIsInvalid ==
    (last.op = "check_budget" /\ last.tokens > MaxTokensPerHour)
        => last.result = "invalid_input"

\* C9 witness: an estimate above the ceiling was refused as invalid while the
\* current hour already held usage.
C9_Witness ==
    /\ last.op = "check_budget"
    /\ last.tokens > MaxTokensPerHour
    /\ last.result = "invalid_input"
    /\ CurrentHourly > 0

\* C10: for a valid estimate e that fits the hourly ceiling, check_budget
\* fails with budget-exceeded when the tokens of the current day plus e
\* exceed max_tokens_per_day, and the daily check does not reject otherwise.
C10_DailyCeiling ==
    [][(/\ IsCheckBudget
        /\ last'.tokens \in 0 .. MaxTokensPerHour
        /\ CurrentHourly + last'.tokens <= MaxTokensPerHour)
       => /\ CurrentDaily + last'.tokens > MaxTokensPerDay
               => (last'.result = "budget_exceeded" /\ last'.by = "daily")
          /\ CurrentDaily + last'.tokens <= MaxTokensPerDay
               => last'.by # "daily"]_vars

\* C10 witness: the daily check rejected an estimate the hourly check let
\* through, the day's usage coming from an earlier hour.
C10_Witness ==
    /\ last.op = "check_budget"
    /\ last.result = "budget_exceeded"
    /\ last.by = "daily"
    /\ CurrentHourly + last.tokens <= MaxTokensPerHour
    /\ CurrentDaily + last.tokens = MaxTokensPerDay + 1

\* C11: for an estimate that passes both token checks, check_budget(e, model)
\* fails with budget-exceeded exactly when the cost accumulated in the current
\* hour plus e times the unit price of the model (the default price for a
\* model missing from the table) exceeds max_cost_per_hour; the accumulated
\* cost is the sum of tokens times unit price over the record_usage calls.
C11_CostCeiling ==
    [][(/\ IsCheckBudget
        /\ last'.tokens \in 0 .. MaxTokensPerHour
        /\ CurrentHourly + last'.tokens <= MaxTokensPerHour
        /\ CurrentDaily + last'.tokens <= MaxTokensPerDay)
       => /\ CurrentCost = Get(recorded_cost, get_hour_key, 0)
          /\ last'.result = "budget_exceeded"
               <=> Get(recorded_cost, get_hour_key, 0)
                       + last'.tokens * ListedPrice(last'.model) > MaxCostPerHour
          /\ last'.result = "budget_exceeded" => last'.by = "cost"]_vars

\* C11 witness: with cost recorded in the current hour, the cost check let
\* through an estimate that brings the hour's cost to the ceiling exactly.
C11_Witness ==
    /\ last.op = "check_budget"
    /\ last.result = "ok"
    /\ last.tokens > 0
    /\ last.model = "other-model"
    /\ CurrentCost > 0
    /\ CurrentCost + last.tokens * DefaultTokenCost = MaxCostPerHour

\* C11 second case: the cost check rejected an estimate both token checks
\* let through.
C11_RejectionReached ==
    /\ last.op = "check_budget"
    /\ last.result = "budget_exceeded"
    /\ last.by = "cost"
    /\ CurrentCost > 0

---------------------------------------------------------------------------
(* Properties of the AIOrchestrator, checked under SpecOrch.               *)

\* the providers registered, as a set
Registered == {providers[i].provider : i \in 1 .. Len(providers)}

\* the registered providers by ascending priority, those of equal priority in
\* the order of their registration: the order the failover walk is to follow
PriorityOrder ==
    LET n == Len(providers)
        Before(i, j) ==
            \/ Priority[providers[i].provider] < Priority[providers[j].provider]
            \/ /\ Priority[providers[i].provider] = Priority[providers[j].provider]
               /\ i < j
        perm == CHOOSE f \in [1 .. n -> 1 .. n] :
                    /\ \A i, j \in 1 .. n : i # j => f[i] # f[j]
                    /\ \A i, j \in 1 .. n : i < j => Before(f[i], f[j])
    IN [i \in 1 .. n |-> providers[perm[i]].provider]

IsPrefix(s, t) == Len(s) <= Len(t) /\ \A i \in 1 .. Len(s) : s[i] = t[i]

\* C3: with P1 (priority 1) failing on every attempt and P2 (priority 2)
\* succeeding, chat returns the response of P2, having called P2 only after
\* P1 used up its max_retries attempts.
C3_FailoverToNextProvider ==
    (/\ chat_last.op = "chat"
     /\ Registered = {"P1", "P2"}
     /\ chat_last.backend["P1"] = "fail"
     /\ chat_last.backend["P2"] = "ok")
    => /\ chat_last.outcome = "returned"
       /\ chat_last.from = "P2"
       /\ chat_last.attempts = <<"P1", "P2">>
       /\ chat_last.requests["P1"] = max_retries

\* C4: when every registered provider fails, chat raises all-providers-failed,
\* after it has called every registered provider.
C4_AllProvidersFailed ==
    (/\ chat_last.op = "chat"
     /\ providers # << >>
     /\ \A p \in Registered : chat_last.backend[p] = "fail")
    => /\ chat_last.outcome = "raised"
       /\ chat_last.error = "AllProvidersFailed"
       /\ {chat_last.attempts[i] : i \in 1 .. Len(chat_last.attempts)} = Registered

\* C5: a chat call tries the providers one at a time in ascending priority,
\* those of equal priority in registration order, whatever the order of
\* their registration.
C5_AttemptsInPriorityOrder ==
    (chat_last.op = "chat" /\ providers # << >>)
    => /\ Len(chat_last.attempts) >= 1
       /\ IsPrefix(chat_last.attempts, PriorityOrder)

\* the controller rejects every valid estimate for model with budget-exceeded
BudgetExhaustedFor(model) ==
    \A e \in 0 .. MaxTokensPerHour :
        CheckResult(e, model, CleanHourlyUsage, CleanDailyUsage,
                    CleanHourlyCost).result = "budget_exceeded"

\* C6: when the CostController rejects the estimate of a request, chat
\* fails with budget-exceeded and sends no request to any provider.
C6_RejectedBudgetCallsNoProvider ==
    [][(/\ chat_last'.op = "chat"
        /\ n_chats' = n_chats + 1
        /\ providers # << >>
        /\ BudgetExhaustedFor(chat_last'.model))
       => /\ chat_last'.outcome = "raised"
          /\ chat_last'.error = "BudgetExceeded"
          /\ \A p \in Provs : chat_last'.requests[p] = 0]_vars

---------------------------------------------------------------------------
(* Properties of the retry wrapper, checked under SpecRetry.               *)

\* the errors after which the wrapper sleeps and tries again
RetryableRaises == {"RateLimitError", "APITimeoutError", "APIConnectionError",
                    "APIError5xx"}

\* func fails with retryable errors at its first k invocations
FailsRetryably(func, k) == \A i \in 1 .. k : func[i] \in RetryableRaises

\* the provider-level error that stands for a retryable failure
ProviderErrorOf(raised) ==
    CASE raised = "RateLimitError" -> "ProviderRateLimitError"
      [] raised = "APITimeoutError" -> "ProviderTimeoutError"
      [] raised = "APIConnectionError" -> "ProviderConnectionError"
      [] OTHER -> "ProviderError"

IsRetryCall == retry_last.op = "execute_with_retry"

\* C12: when func fails with retryable errors at its first k < max_retries
\* invocations and succeeds at invocation k + 1, the wrapper returns that
\* result, having slept exactly k times, each sleep longer than the one before.
C12_RetriesThenSuccess ==
    \A k \in 0 .. (max_retries - 1) :
        (/\ IsRetryCall
         /\ FailsRetryably(retry_last.func, k)
         /\ retry_last.func[k + 1] = "ok")
        => /\ retry_last.end.outcome = "returned"
           /\ retry_last.end.calls = k + 1
           /\ Len(retry_last.end.sleeps) = k
           /\ \A i \in 1 .. (k - 1) :
                  retry_last.end.sleeps[i] < retry_last.end.sleeps[i + 1]

\* C13: when an invocation of func fails with a client-side (4xx) error, at
\* whatever index, the wrapper raises a provider error after exactly that
\* invocation, with no sleep after it and no further invocation.
C13_ClientErrorNotRetried ==
    \A k \in 0 .. (max_retries - 1) :
        (/\ IsRetryCall
         /\ FailsRetryably(retry_last.func, k)
         /\ retry_last.func[k + 1] = "APIError4xx")
        => /\ retry_last.end.outcome = "raised"
           /\ retry_last.end.error = "ProviderError"
           /\ retry_last.end.message = "Client error"
           /\ retry_last.end.calls = k + 1
           /\ Len(retry_last.end.sleeps) = k

\* C14: when an invocation of func fails with an error outside the classified
\* set, the wrapper stops at once, with no sleep and no further invocation,
\* and the caller receives a generic ProviderError.
C14_UnexpectedErrorStops ==
    \A k \in 0 .. (max_retries - 1) :
        (/\ IsRetryCall
         /\ FailsRetryably(retry_last.func, k)
         /\ retry_last.func[k + 1] = "Exception")
        => /\ retry_last.end.outcome = "raised"
           /\ retry_last.end.error = "ProviderError"
           /\ retry_last.end.calls = k + 1
           /\ Len(retry_last.end.sleeps) = k

\* C15: a call of the wrapper raises the request counter by the number of
\* invocations of func it made; it raises the error counter by one when it
\* ends by exhausting its retries, and leaves it alone when it returns a result.
C15_CountersFollowTheCall ==
    IsRetryCall
    => /\ request_count.set
       /\ retry_last.end.calls >= 1
       /\ request_count.value
              = retry_last.request_count_before.value + retry_last.end.calls
       /\ FailsRetryably(retry_last.func, max_retries)
              => /\ error_count.set
                 /\ error_count.value = retry_last.error_count_before.value + 1
       /\ retry_last.end.outcome = "returned"
              => error_count = retry_last.error_count_before

\* C16: when all max_retries invocations fail with retryable errors, the
\* wrapper raises the provider-level error of the kind of the last failure.
C16_LastFailureIsRaised ==
    (IsRetryCall /\ FailsRetryably(retry_last.func, max_retries))
    => /\ retry_last.end.outcome = "raised"
       /\ retry_last.end.error = ProviderErrorOf(retry_last.func[max_retries])
       /\ retry_last.end.message # "non disponibile"
       /\ retry_last.end.calls = max_retries

---------------------------------------------------------------------------
(* Properties of requests in flight at once, checked under SpecConc.       *)

\* C17: with requests in flight at once, each calling check_budget(e) and
\* then record_usage(e), the token count of the current hour never exceeds
\* max_tokens_per_hour, in any interleaving.
C17_HourlyCeilingUnderConcurrency ==
    CurrentHourly <= MaxTokensPerHour

\* C18: once all concurrent record_usage calls have completed, the token
\* counts of the hour and of the day equal the sum of the recorded amounts,
\* in every interleaving of the read-add-write steps of the calls.
C18_NoLostUpdate ==
    (\A r \in Requests : req[r].pc \in {"done", "rejected"})
    => /\ CurrentHourly = Get(recorded, get_hour_key, 0)
       /\ CurrentDaily = Get(recorded, get_hour_key, 0)

---------------------------------------------------------------------------
(* Properties of the ToolsManager, checked under SpecTools.                *)

IsExecuteTool == tool_last.op = "execute_tool"

\* C19: execute_tool with a name that is not registered fails with
\* ToolNotFoundError, a subtype of the execution failure, and calls no handler.
C19_UnregisteredIsNotFound ==
    (IsExecuteTool /\ tool_last.name \notin DOMAIN tools)
    => /\ tool_last.outcome = "raised"
       /\ IsSubclass(tool_last.error, "ToolNotFoundError")
       /\ tool_last.called = << >>

\* C20 as stated: execute_tool with a registered name whose handler raises
\* any exception fails with an execution failure that carries the tool name
\* and the cause, the handler's exception never reaching the caller as it is;
\* a handler that returns has its result returned.
C20_AnyExceptionIsWrapped ==
    (IsExecuteTool /\ tool_last.name \in DOMAIN tools)
    => /\ tool_last.did.raises # "none"
          => /\ tool_last.outcome = "raised"
             /\ IsSubclass(tool_last.error, "ToolExecutionError")
             /\ tool_last.tool = tool_last.name
             /\ tool_last.cause = tool_last.did.text
       /\ tool_last.did.raises = "none"
          => /\ tool_last.outcome = "returned"
             /\ tool_last.result = tool_last.did.result

\* C20 amended: execute_tool with a registered name whose handler raises an
\* exception derived from Exception fails with an execution failure that
\* carries the tool name and the text of the cause; an exception that derives
\* from BaseException only (a cancellation) reaches the caller as it is; a
\* handler that returns has its result returned.
C20_ExceptionIsWrapped ==
    (IsExecuteTool /\ tool_last.name \in DOMAIN tools)
    => /\ (tool_last.did.raises # "none" /\ IsSubclass(tool_last.did.raises, "Exception"))
          => /\ tool_last.outcome = "raised"
             /\ IsSubclass(tool_last.error, "ToolExecutionError")
             /\ tool_last.tool = tool_last.name
             /\ tool_last.cause = tool_last.did.text
       /\ (tool_last.did.raises # "none" /\ ~IsSubclass(tool_last.did.raises, "Exception"))
          => /\ tool_last.outcome = "raised"
             /\ tool_last.error = tool_last.did.raises
       /\ tool_last.did.raises = "none"
          => /\ tool_last.outcome = "returned"
             /\ tool_last.result = tool_last.did.result

\* C20 witness: the handler registered under the name raised ValueError from
\* its body, and the call failed with the execution failure.
C20_Witness ==
    /\ IsExecuteTool
    /\ tool_last.name \in DOMAIN tools
    /\ tool_last.did.raises = "ValueError"
    /\ tool_last.did.entered
    /\ tool_last.error = "ToolExecutionError"

\* C21: when the handler of a registered name rejects its arguments, by an
\* error of its own checks or because they do not match its parameters,
\* execute_tool fails with ToolValidationError.
C21_RejectedArgumentsAreValidationFailures ==
    (/\ IsExecuteTool
     /\ tool_last.name \in DOMAIN tools
     /\ tool_last.arguments \in {"invalid", "mismatch"}
     /\ tool_last.did.raises \in {"ValueError", "TypeError", "ToolValidationError"})
    => /\ tool_last.outcome = "raised"
       /\ IsSubclass(tool_last.error, "ToolValidationError")

\* C22: after any sequence of register_tool calls the list of definitions
\* holds exactly one definition for each registered name, so it is as long
\* as the list of names that list_tools returns.
C22_OneDefinitionPerName ==
    /\ Len(tool_definitions) = Len(Keys(tool_definitions))
    /\ \A name \in DOMAIN tools :
          Cardinality({i \in 1 .. Len(tool_definitions) :
                          tool_definitions[i].name = name}) = 1
    /\ tool_last.op = "list_tools" => Len(tool_last.result) = Len(tool_definitions)

---------------------------------------------------------------------------
(* Further properties of the AIOrchestrator, checked under SpecOrch.       *)

\* a step that is a chat call
IsChatStep == chat_last'.op = "chat" /\ n_chats' = n_chats + 1

\* C23: a chat call that returns records the usage of the response with the
\* CostController exactly once and appends exactly one entry to the request
\* history, so that total_requests counts the chat calls that returned.
C23_ReturnedChatIsRecordedOnce ==
    [][(IsChatStep /\ chat_last'.outcome = "returned")
       => /\ n_records' = n_records + 1
          /\ get_analytics'.total_requests = get_analytics.total_requests + 1]_vars

\* C24: when the response of the provider carries tool calls, the chat call
\* executes them through the ToolsManager, once each, and returns without a
\* further request to a provider.
C24_ToolCallsAreExecutedOnce ==
    [][(/\ IsChatStep
        /\ providers # << >>
        /\ chat_last'.backend[Values(providers)[1]] = "tool_calls")
       => /\ chat_last'.outcome = "returned"
          /\ tool_last'.op = "execute_tool"
          /\ tool_last' # tool_last
          /\ chat_last'.requests[Values(providers)[1]] = 1]_vars

---------------------------------------------------------------------------
(* Further properties of the CostController, checked under SpecCost.       *)

\* no count of a bucket that d holds before and after the step is lower after
NoBucketDecreases(d_before, d_after) ==
    \A k \in DOMAIN d_before \cap DOMAIN d_after : d_after[k] >= d_before[k]

\* C25: from the creation of an hour or day bucket to its eviction or a reset,
\* its token count never decreases across check_budget, record_usage and
\* get_current_usage calls, whatever amount record_usage accepts.
C25_BucketCountsNeverDecrease ==
    [][last'.op \in {"check_budget", "record_usage", "get_current_usage"}
       => /\ NoBucketDecreases(hourly_usage, hourly_usage')
          /\ NoBucketDecreases(daily_usage, daily_usage')]_vars

\* every bucket of d_after is a bucket of d_before with the count it had
OnlyEvictions(d_before, d_after) ==
    \A k \in DOMAIN d_after : k \in DOMAIN d_before /\ d_after[k] = d_before[k]

\* C26: a check_budget call whose estimate exceeds no ceiling returns success
\* whether or not the alert threshold is passed; the warning is emitted
\* exactly when (current-hour tokens + estimate) / max_tokens_per_hour is
\* strictly greater than alert_threshold, and the call adds nothing to any
\* usage window.
C26_AlertDoesNotBlock ==
    [][(/\ IsCheckBudget
        /\ last'.tokens \in 0 .. MaxTokensPerHour
        /\ CurrentHourly + last'.tokens <= MaxTokensPerHour
        /\ CurrentDaily + last'.tokens <= MaxTokensPerDay
        /\ CurrentCost + last'.tokens * ListedPrice(last'.model) <= MaxCostPerHour)
       => /\ last'.result = "ok"
          /\ last'.alert
               <=> (CurrentHourly + last'.tokens) * AlertDen > AlertNum * MaxTokensPerHour
          /\ OnlyEvictions(hourly_usage, hourly_usage')
          /\ OnlyEvictions(daily_usage, daily_usage')
          /\ OnlyEvictions(hourly_cost, hourly_cost')
          /\ CurrentHourly' = CurrentHourly
          /\ CurrentDaily' = CurrentDaily
          /\ CurrentCost' = CurrentCost]_vars

\* C26 witness: with usage recorded in the current hour, a check passed the
\* alert threshold and returned success.
C26_Witness ==
    /\ last.op = "check_budget"
    /\ last.result = "ok"
    /\ last.alert
    /\ CurrentHourly > 0
    /\ last.tokens > 0

\* C26 second case: a check that brought the hour to the threshold exactly
\* returned success without the warning.
C26_AtThresholdReached ==
    /\ last.op = "check_budget"
    /\ last.result = "ok"
    /\ ~last.alert
    /\ (CurrentHourly + last.tokens) * AlertDen = AlertNum * MaxTokensPerHour

---------------------------------------------------------------------------
(* Further properties of the providers, checked under SpecRetry.           *)

IsAvailableCall == avail_last.op = "is_available"

\* C27 as stated: is_available never raises; it returns False whenever the
\* health check raises any exception, and the result of the health check
\* otherwise.
C27_IsAvailableNeverRaises ==
    IsAvailableCall
    => /\ avail_last.outcome = "returned"
       /\ avail_last.health \in {"True", "False"} => avail_last.value = avail_last.health
       /\ avail_last.health \notin {"True", "False"} => avail_last.value = "False"

\* C27 amended: is_available returns False whenever the health check raises
\* an exception derived from Exception, and the result of the health check
\* when it returns; an exception that derives from BaseException only leaves
\* is_available as it is.
C27_IsAvailableCatchesExceptions ==
    IsAvailableCall
    => /\ avail_last.health \in {"True", "False"}
          => /\ avail_last.outcome = "returned"
             /\ avail_last.value = avail_last.health
       /\ (avail_last.health \notin {"True", "False"}
               /\ IsSubclass(avail_last.health, "Exception"))
          => /\ avail_last.outcome = "returned"
             /\ avail_last.value = "False"
       /\ (avail_last.health \notin {"True", "False"}
               /\ ~IsSubclass(avail_last.health, "Exception"))
          => /\ avail_last.outcome = "raised"
             /\ avail_last.error = avail_last.health

\* C27 witness: a health check raised RuntimeError and is_available returned
\* False.
C27_Witness ==
    /\ IsAvailableCall
    /\ avail_last.health = "RuntimeError"
    /\ avail_last.outcome = "returned"
    /\ avail_last.value = "False"

---------------------------------------------------------------------------
(* Further properties of the CostController, checked under SpecCost.       *)

\* C28: after reset_budgets all three windows are empty: get_current_usage
\* reports 0 hourly tokens, 0 daily tokens and 0 hourly cost, and check_budget
\* accepts every estimate that fits the ceilings by itself, whatever was
\* recorded before the reset.
C28_ResetEmptiesTheWindows ==
    [][last.op = "reset_budgets"
       => /\ hourly_usage = EmptyDict
          /\ daily_usage = EmptyDict
          /\ hourly_cost = EmptyDict
          /\ last'.op = "get_current_usage"
               => /\ last'.stats.hourly_tokens = 0
                  /\ last'.stats.daily_tokens = 0
                  /\ last'.stats.hourly_cost = 0
          /\ (/\ IsCheckBudget
              /\ last'.tokens \in 0 .. MaxTokensPerHour
              /\ last'.tokens <= MaxTokensPerDay
              /\ last'.tokens * ListedPrice(last'.model) <= MaxCostPerHour)
               => last'.result = "ok"]_vars

\* C28 witness: after a reset that followed recorded usage, check_budget
\* accepted an estimate of the whole hourly ceiling.
C28_Witness ==
    /\ last.op = "check_budget"
    /\ last.result = "ok"
    /\ last.tokens = MaxTokensPerHour
    /\ n_records = MaxRecords
    /\ now = StartHour
    /\ recorded = EmptyDict

---------------------------------------------------------------------------
(* Further properties of the retry wrapper, checked under SpecRetry.       *)

\* C29: every call of the wrapper ends, by a result or by an error, after at
\* most max_retries invocations of func, whatever func does; an invocation
\* that times out is classified as a timeout and is followed by the next
\* attempt, or, when it was the last one, by the timeout error.
C29_BoundedAttempts ==
    IsRetryCall
    => /\ retry_last.end.outcome \in {"returned", "raised"}
       /\ retry_last.end.calls <= max_retries
       /\ \A i \in 1 .. max_retries :
              (FailsRetryably(retry_last.func, i - 1)
                  /\ retry_last.func[i] = "APITimeoutError")
              => IF i < max_retries
                 THEN retry_last.end.calls >= i + 1
                 ELSE /\ retry_last.end.calls = max_retries
                      /\ retry_last.end.outcome = "raised"
                      /\ retry_last.end.error = "ProviderTimeoutError"

---------------------------------------------------------------------------
(* Eviction, checked under SpecCost.                                       *)

\* the age of an hour bucket in hours, and of a day bucket in days
HourAge(k) == now - (k[1] * HoursPerDay + k[2])
DayAge(k) == (now \div HoursPerDay) - k[1]

\* a bucket at or past its retention horizon is in the windows
PastHorizon(hu, du, hc) ==
    \/ \E k \in DOMAIN hu : HourAge(k) >= RetentionHours
    \/ \E k \in DOMAIN hc : HourAge(k) >= RetentionHours
    \/ \E k \in DOMAIN du : DayAge(k) >= RetentionDays

\* the buckets of the current hour and day are kept as they are
CurrentBucketsKept ==
    /\ get_hour_key \in DOMAIN hourly_usage
          => get_hour_key \in DOMAIN hourly_usage' /\ CurrentHourly' = CurrentHourly
    /\ get_hour_key \in DOMAIN hourly_cost
          => get_hour_key \in DOMAIN hourly_cost' /\ CurrentCost' = CurrentCost
    /\ get_day_key \in DOMAIN daily_usage
          => get_day_key \in DOMAIN daily_usage' /\ CurrentDaily' = CurrentDaily

\* C30 as stated: after any check_budget call no hourly bucket past the
\* 2-hour horizon and no daily bucket past the 2-day horizon remains, and the
\* buckets of the current hour and day are kept with their counts.
C30_EvictionOnEveryCheck ==
    [][IsCheckBudget
       => /\ ~PastHorizon(hourly_usage', daily_usage', hourly_cost')
          /\ CurrentBucketsKept]_vars

\* C30 amended: after a check_budget call whose estimate passes validation no
\* bucket past its horizon remains, whether the call succeeds or fails with
\* budget-exceeded; a call that fails validation evicts nothing; in both
\* cases the buckets of the current hour and day are kept with their counts.
C30_EvictionOnValidCheck ==
    [][IsCheckBudget
       => /\ last'.result # "invalid_input"
               => ~PastHorizon(hourly_usage', daily_usage', hourly_cost')
          /\ last'.result = "invalid_input"
               => UNCHANGED <<hourly_usage, daily_usage, hourly_cost>>
          /\ CurrentBucketsKept]_vars

\* C30 witness: a check failed with budget-exceeded in an hour that holds
\* usage, and the only buckets left are within their horizons although usage
\* was recorded at the first instant, which is past the daily horizon.
C30_Witness ==
    /\ last.op = "check_budget"
    /\ last.result = "budget_exceeded"
    /\ now = StartHour + RetentionDays * HoursPerDay
    /\ n_records = MaxRecords
    /\ HourKeyAt(StartHour) \in DOMAIN recorded
    /\ DOMAIN daily_usage = {get_day_key}
    /\ DOMAIN hourly_usage = {get_hour_key}

---------------------------------------------------------------------------
(* Streaming, checked under SpecRetry.                                     *)

IsStream == retry_last.op = "stream"

\* C31: a stream call goes through the bounded-retry wrapper: when the
\* backend fails with retryable errors at its first k < max_retries
\* invocations and then succeeds, the stream is delivered after k + 1
\* invocations; when it fails with retryable errors at all max_retries
\* invocations, the caller receives the provider-level error of the last
\* failure and not the error of the backend.
C31_StreamIsRetried ==
    /\ \A k \in 0 .. (max_retries - 1) :
           (/\ IsStream
            /\ FailsRetryably(retry_last.func, k)
            /\ retry_last.func[k + 1] = "ok")
           => /\ retry_last.end.outcome = "returned"
              /\ retry_last.end.calls = k + 1
    /\ (IsStream /\ FailsRetryably(retry_last.func, max_retries))
           => /\ retry_last.end.outcome = "raised"
              /\ retry_last.end.calls = max_retries
              /\ retry_last.end.error = ProviderErrorOf(retry_last.func[max_retries])

---------------------------------------------------------------------------
(* Registration during a chat call, checked under SpecThreads.             *)

\* C32: a register_provider that runs while a chat call is in progress does
\* not change which provider the call attempts: the provider the call has
\* selected is the first of the provider list as it was when the call started.
C32_CallUsesTheListItStartedWith ==
    call.pc \in {"selected", "in_flight"}
    => call.provider = Values(call.started_with)[1]

---------------------------------------------------------------------------
(* Accepted checks and the change of the hour, checked under SpecCost.     *)

\* C33: a check_budget call that succeeds reserves nothing: the token and
\* cost counts of the current hour and of the current day are after the call
\* what they were before it, and the same call made again right after a
\* successful one, with no record_usage and no move of the clock in between,
\* succeeds again with the same alert.
C33_SuccessReservesNothing ==
    [][(IsCheckBudget /\ last'.result = "ok")
       => /\ CurrentHourly' = CurrentHourly
          /\ CurrentDaily' = CurrentDaily
          /\ CurrentCost' = CurrentCost
          /\ (/\ last.op = "check_budget"
              /\ last.tokens = last'.tokens
              /\ last.model = last'.model)
             => (last'.result = last.result /\ last'.alert = last.alert)]_vars

\* C33 witness: a check with a positive estimate has succeeded in an hour
\* that holds recorded usage, and the counts of the hour and of the day are
\* still the recorded amounts.
C33_Witness ==
    /\ last.op = "check_budget"
    /\ last.result = "ok"
    /\ last.tokens > 0
    /\ n_records > 0
    /\ CurrentHourly > 0
    /\ CurrentHourly = Get(recorded, get_hour_key, 0)
    /\ CurrentCost = Get(recorded_cost, get_hour_key, 0)

\* the sum of the values of d at keys
RECURSIVE SumOver(_, _)
SumOver(d, keys) ==
    IF keys = {}
    THEN 0
    ELSE LET k == CHOOSE x \in keys : TRUE
         IN d[k] + SumOver(d, keys \ {k})

\* the tokens recorded in the hours of the current day
DayTotal == SumOver(recorded, {k \in DOMAIN recorded : k[1] = now \div HoursPerDay})

\* nothing has been recorded in the current hour
FreshHour == get_hour_key \notin DOMAIN recorded

\* C34: in an hour in which nothing has been recorded yet, the usage of
\* earlier hours does not count against the hourly ceilings: the tokens and
\* the cost of the current hour read 0.  The tokens of the earlier hours of
\* the day still count against the daily ceiling: a check_budget call with a
\* valid estimate e whose cost fits the hourly cost ceiling is rejected with
\* budget-exceeded if and only if the day's total plus e exceeds
\* max_tokens_per_day.
C34_NewHourKeepsTheDay ==
    [][(IsCheckBudget /\ FreshHour)
       => /\ CurrentHourly = 0 /\ CurrentCost = 0
          /\ CurrentHourly' = 0 /\ CurrentCost' = 0
          /\ (/\ ~InvalidEstimate(last'.tokens)
              /\ last'.tokens * UnitPrice(last'.model) <= MaxCostPerHour)
             => (last'.result = "budget_exceeded"
                    <=> DayTotal + last'.tokens > MaxTokensPerDay)]_vars

\* C34 witness: usage was recorded in the first hour, the clock has moved to
\* the next hour of the same day, and a check whose estimate fits the hourly
\* ceiling was rejected by the daily ceiling.
C34_Witness ==
    /\ last.op = "check_budget"
    /\ last.result = "budget_exceeded"
    /\ last.by = "daily"
    /\ now = StartHour + 1
    /\ DOMAIN recorded = {HourKeyAt(StartHour)}
    /\ recorded[HourKeyAt(StartHour)] > 0
    /\ CurrentHourly = 0
    /\ DayTotal + last.tokens > MaxTokensPerDay

---------------------------------------------------------------------------
(* The first call on a new provider, checked under SpecRetry.              *)

\* ProviderError and its subclasses
ProviderErrors == {"ProviderError", "ProviderTimeoutError", "ProviderRateLimitError",
                   "ProviderConnectionError"}

\* C35: on a provider on which no call has counted yet, the request and error
\* counters exist before the wrapper first increments them; the wrapper
\* invokes func at least once, and the call ends with the result of func or
\* with a ProviderError.
C35_FirstCallReachesTheBackend ==
    (/\ IsRetryCall
     /\ retry_last.request_count_before.value = 0
     /\ retry_last.error_count_before.value = 0)
    => /\ retry_last.request_count_before.set
       /\ retry_last.error_count_before.set
       /\ retry_last.end.calls >= 1
       /\ \/ retry_last.end.outcome = "returned"
          \/ /\ retry_last.end.outcome = "raised"
             /\ retry_last.end.error \in ProviderErrors

---------------------------------------------------------------------------
(* Failed chat calls and the history, checked under SpecOrch.              *)

\* C36: a chat call that raises, because no provider is registered or
\* because the call of the provider fails, leaves the request history as it
\* was, and get_analytics().total_requests is after the call what it was
\* before it.
C36_FailedChatIsNotRecorded ==
    [][(IsChatStep /\ chat_last'.outcome = "raised")
       => /\ request_history' = request_history
          /\ get_analytics'.total_requests = get_analytics.total_requests
          /\ get_analytics'.models_used = get_analytics.models_used]_vars

\* C36 witness: after a chat call that returned and was recorded, a second
\* call sent its request to the registered provider, failed, and the history
\* holds the first call only.
C36_Witness ==
    /\ chat_last.op = "chat"
    /\ chat_last.outcome = "raised"
    /\ chat_last.error = "ProviderException"
    /\ Len(chat_last.attempts) = 1
    /\ n_chats = 2
    /\ get_analytics.total_requests = 1

===========================================================================
